---- MODULE Spec2Model ----
(***************************************************************************)
(* Model of client/build.py: the build orchestrator that runs the type     *)
(* checker, runs the bundler, and replaces the server's static directory   *)
(* with the bundler's output.                                              *)
(*                                                                         *)
(* The two filesystem paths the script names (DIST_DIR and                 *)
(* SERVER_STATIC_DIR) are modelled as values: a path is absent, a regular  *)
(* file, or a directory holding entries.  The external commands are black  *)
(* boxes: their return code and the bundler's output are chosen            *)
(* nondeterministically.  shutil.rmtree and shutil.copytree raise exactly  *)
(* when the state of the paths makes them raise; transient I/O errors      *)
(* (EIO, ENOSPC, EACCES) are not modelled.                                 *)
(***************************************************************************)
EXTENDS Integers, Sequences, FiniteSets

\* Number of entry names a directory may hold.
MaxFiles == 2

Names == 1..MaxFiles

\* What a name holds in a directory: nothing, a subdirectory, or a regular
\* file with one of two contents.
Entries == {"none", "subdir", "bytes1", "bytes2"}

Trees == [Names -> Entries]

EmptyTree == [n \in Names |-> "none"]

\* The states of a filesystem path.
Absent == [kind |-> "absent", tree |-> EmptyTree]

RegularFile == [kind |-> "file", tree |-> EmptyTree]

Directory(t) == [kind |-> "dir", tree |-> t]

Paths == {Absent, RegularFile} \cup {Directory(t) : t \in Trees}

\* subprocess.run(...).returncode with shell=True: the shell's exit status
\* (0..255), or -N when the child was terminated by signal N.
ReturnCodes == {-9, 0, 1, 2}

VARIABLES
    pc,          \* the statement of main() the process is at
    status,      \* "running", "done", "failed" (sys.exit), "raised", "killed"
    steps,       \* the steps this run has started, in order
    dist,        \* DIST_DIR
    static,      \* SERVER_STATIC_DIR
    static0,     \* SERVER_STATIC_DIR when this run started
    distAtCopy,  \* DIST_DIR when copytree was called in this run
    tscRc,       \* returncode of "npx tsc -b" (meaningful once "tsc" is in steps)
    viteRc,      \* returncode of "npx vite build" (once "vite" is in steps)
    exitCode,    \* exit status of the process (meaningful once it has exited)
    second,      \* TRUE in the second of two successive runs
    prev         \* how the first run ended and what its bundler produced

vars == <<pc, status, steps, dist, static, static0, distAtCopy, tscRc, viteRc,
          exitCode, second, prev>>

NoPrev == [end |-> "none", out |-> Absent]

Init ==
    /\ pc = "chdir"
    /\ status = "running"
    /\ steps = <<>>
    /\ dist \in Paths
    /\ static \in Paths
    /\ static0 = static
    /\ distAtCopy = Absent
    /\ tscRc = 0
    /\ viteRc = 0
    /\ exitCode = 0
    /\ second = FALSE
    /\ prev = NoPrev

----------------------------------------------------------------------------
\* Variant: the return code is never looked at.
FailedNever(returncode) == FALSE

\* Variant: only a positive return code counts as a failure.
FailedPositive(returncode) == returncode > 0

\* run_command: "if result.returncode != 0"
Failed(returncode) == returncode # 0

\* sys.exit(n): the process exit status is the low byte of n.
ExitStatus(returncode) == returncode % 256

\* Variant: the existence test always answers no, so nothing is deleted.
ExistsNever(p) == FALSE

\* SERVER_STATIC_DIR.exists()
Exists(p) == p.kind # "absent"

\* Variant: rmtree(p, ignore_errors=True).
RmtreeNeverRaises(p) == FALSE

\* shutil.rmtree(p) raises NotADirectoryError when p is not a directory.
RmtreeRaises(p) == p.kind # "dir"

\* Variant: a delete that is not recursive and leaves the subdirectories.
RmtreeKeepsSubdirs(p) ==
    Directory([n \in Names |-> IF p.tree[n] = "subdir" THEN "subdir" ELSE "none"])

\* shutil.rmtree(p) removes the directory and everything in it.
RmtreeResult(p) == Absent

\* Variant: a missing or unreadable source is silently taken as empty.
CopytreeRaisesDstOnly(src, dst) == dst.kind # "absent"

\* shutil.copytree(src, dst) raises when src cannot be listed as a directory
\* (FileNotFoundError, NotADirectoryError) or dst exists (FileExistsError).
CopytreeRaises(src, dst) == src.kind # "dir" \/ dst.kind # "absent"

\* Variant: a copy that is not recursive and skips the subdirectories.
CopytreeFlat(src, dst) ==
    Directory([n \in Names |-> IF src.tree[n] = "subdir" THEN "none" ELSE src.tree[n]])

\* Variant: the copy lands somewhere else and dst is left as it was.
CopytreeElsewhere(src, dst) == dst

\* shutil.copytree(src, dst) creates dst with every entry of src.
CopytreeResult(src, dst) == Directory(src.tree)

----------------------------------------------------------------------------
Running == status = "running"

\* main(): resolve the script directory and chdir into it.
Chdir ==
    /\ Running /\ pc = "chdir"
    /\ pc' = "tsc"
    /\ UNCHANGED <<status, steps, dist, static, static0, distAtCopy, tscRc,
                   viteRc, exitCode, second, prev>>

\* Variant: a failed command is run again instead of ending the process.
RunCommandRetry(cmd, returncode, next) ==
    /\ steps' = Append(steps, cmd)
    /\ pc' = IF returncode # 0 THEN pc ELSE next
    /\ UNCHANGED <<status, exitCode>>

\* run_command(cmd): run it, and sys.exit(returncode) when it failed.
RunCommand(cmd, returncode, next) ==
    /\ steps' = Append(steps, cmd)
    /\ IF Failed(returncode)
       THEN /\ status' = "failed"
            /\ exitCode' = ExitStatus(returncode)
            /\ pc' = pc
       ELSE /\ pc' = next
            /\ UNCHANGED <<status, exitCode>>

\* run_command(["npx", "tsc", "-b"])
RunTsc ==
    /\ Running /\ pc = "tsc"
    /\ \E rc \in ReturnCodes :
          /\ tscRc' = rc
          /\ RunCommand("tsc", rc, "vite")
    /\ UNCHANGED <<dist, static, static0, distAtCopy, viteRc, second, prev>>

\* run_command(["npx", "vite", "build"]): the bundler leaves DIST_DIR in
\* any state, whatever it returns.
RunVite ==
    /\ Running /\ pc = "vite"
    /\ \E rc \in ReturnCodes :
          /\ viteRc' = rc
          /\ RunCommand("vite", rc, "exists")
    /\ dist' \in Paths
    /\ UNCHANGED <<static, static0, distAtCopy, tscRc, second, prev>>

\* if SERVER_STATIC_DIR.exists():
ExistsCheck ==
    /\ Running /\ pc = "exists"
    /\ steps' = Append(steps, "exists")
    /\ pc' = IF Exists(static) THEN "rmtree" ELSE "copytree"
    /\ UNCHANGED <<status, dist, static, static0, distAtCopy, tscRc, viteRc,
                   exitCode, second, prev>>

\* shutil.rmtree(SERVER_STATIC_DIR); an exception is not caught, and the
\* interpreter exits with status 1.
Rmtree ==
    /\ Running /\ pc = "rmtree"
    /\ steps' = Append(steps, "rmtree")
    /\ IF RmtreeRaises(static)
       THEN /\ status' = "raised"
            /\ exitCode' = 1
            /\ UNCHANGED <<pc, static>>
       ELSE /\ static' = RmtreeResult(static)
            /\ pc' = "copytree"
            /\ UNCHANGED <<status, exitCode>>
    /\ UNCHANGED <<dist, static0, distAtCopy, tscRc, viteRc, second, prev>>

\* shutil.copytree(DIST_DIR, SERVER_STATIC_DIR)
Copytree ==
    /\ Running /\ pc = "copytree"
    /\ steps' = Append(steps, "copytree")
    /\ distAtCopy' = dist
    /\ IF CopytreeRaises(dist, static)
       THEN /\ status' = "raised"
            /\ exitCode' = 1
            /\ UNCHANGED <<pc, static>>
       ELSE /\ static' = CopytreeResult(dist, static)
            /\ pc' = "print"
            /\ UNCHANGED <<status, exitCode>>
    /\ UNCHANGED <<dist, static0, tscRc, viteRc, second, prev>>

\* print("Build complete."), main() returns and the interpreter exits 0.
PrintComplete ==
    /\ Running /\ pc = "print"
    /\ steps' = Append(steps, "print")
    /\ status' = "done"
    /\ exitCode' = 0
    /\ pc' = "end"
    /\ UNCHANGED <<dist, static, static0, distAtCopy, tscRc, viteRc, second,
                   prev>>

\* The process is interrupted between two statements of main().
Interrupt ==
    /\ Running
    /\ status' = "killed"
    /\ UNCHANGED <<pc, steps, dist, static, static0, distAtCopy, tscRc,
                   viteRc, exitCode, second, prev>>

\* The script is run a second time, after the first run has ended.
RunAgain ==
    /\ ~Running /\ ~second
    /\ second' = TRUE
    /\ prev' = [end |-> status,
                out |-> IF status \in {"done", "raised"} THEN dist ELSE Absent]
    /\ pc' = "chdir"
    /\ status' = "running"
    /\ steps' = <<>>
    /\ static0' = static
    /\ distAtCopy' = Absent
    /\ tscRc' = 0
    /\ viteRc' = 0
    /\ exitCode' = 0
    /\ UNCHANGED <<dist, static>>

Next ==
    \/ Chdir
    \/ RunTsc
    \/ RunVite
    \/ ExistsCheck
    \/ Rmtree
    \/ Copytree
    \/ PrintComplete
    \/ Interrupt
    \/ RunAgain

Spec == Init /\ [][Next]_vars

----------------------------------------------------------------------------
\* Vocabulary of the properties.

Started(s) == \E i \in DOMAIN steps : steps[i] = s

\* The process has exited by itself (main returned, sys.exit, or an
\* uncaught exception); an interrupted process is "killed".
Ended == status \in {"done", "failed", "raised"}

BothSucceeded ==
    /\ Started("tsc") /\ tscRc = 0
    /\ Started("vite") /\ viteRc = 0

\* With both commands succeeded, the paths are such that the delete or the
\* copy raises: the destination is a regular file, or the build output is
\* not a directory.
FsError == static0.kind = "file" \/ dist.kind # "dir"

Order == <<"tsc", "vite", "exists", "rmtree", "copytree", "print">>

Pos(s) == CHOOSE i \in DOMAIN Order : Order[i] = s

----------------------------------------------------------------------------
\* C1: once the type-check command has returned a non-zero status, the
\* bundler is never invoked and the destination is as it was at the start
\* of the run.
C1_TscFailureStopsRun ==
    (Started("tsc") /\ tscRc # 0) =>
        /\ ~Started("vite")
        /\ static = static0

C1_Witness ==
    /\ status = "failed"
    /\ Started("tsc") /\ tscRc # 0
    /\ static.kind = "dir" /\ static.tree # EmptyTree

\* C2: once the type check has returned 0 and the bundler a non-zero
\* status, neither the delete nor the copy is performed and the
\* destination is as it was at the start of the run.
C2_ViteFailureLeavesStatic ==
    (Started("vite") /\ tscRc = 0 /\ viteRc # 0) =>
        /\ ~Started("rmtree")
        /\ ~Started("copytree")
        /\ static = static0

C2_Witness ==
    /\ status = "failed"
    /\ Started("vite") /\ tscRc = 0 /\ viteRc # 0
    /\ static.kind = "dir" /\ static.tree # EmptyTree
    /\ dist # static

\* C3 as stated: when the process has exited, its exit code is 0 exactly
\* when both external commands returned 0, also when the delete or the
\* copy raised.
C3_ExitZeroIffBothZero ==
    Ended => (exitCode = 0 <=> BothSucceeded)

\* C3 amended: when the process has exited, its exit code is 0 exactly
\* when both external commands returned 0 and neither the delete nor the
\* copy raised a filesystem error.
C3_ExitZeroIffBothZeroAndNoFsError ==
    Ended => (exitCode = 0 <=> (BothSucceeded /\ ~FsError))

C3_Witness ==
    /\ status = "raised"
    /\ BothSucceeded
    /\ Started("copytree") /\ dist.kind = "absent"
    /\ exitCode # 0

\* C4 as stated: whenever a run in which both external commands succeeded
\* has ended, the destination equals the build output.
C4_StaticEqualsDistWhenBothSucceed ==
    (Ended /\ BothSucceeded) => static = dist

\* C4 amended: whenever a run in which both external commands succeeded
\* and neither the delete nor the copy raised has ended, the destination
\* is a directory whose entries are exactly those the build output had
\* when it was copied.
C4_StaticEqualsDistAfterCopy ==
    (Ended /\ BothSucceeded /\ ~FsError) =>
        /\ static.kind = "dir"
        /\ static = distAtCopy

C4_Witness ==
    /\ status = "done"
    /\ static0.kind = "dir" /\ static0 # static
    /\ \E n \in Names : static.tree[n] = "subdir"
    /\ \E n \in Names : static.tree[n] = "bytes1"

\* C5 as stated: a run ended by a failing command exits with exactly the
\* return code of the first failing command.
C5_ExitCodeIsFirstFailingReturnCode ==
    status = "failed" => exitCode = (IF tscRc # 0 THEN tscRc ELSE viteRc)

\* C6: after a successful run the destination exists, whether or not it
\* existed before, and no entry it had before the run that the build
\* output lacks is left.
C6_StaticReplaced ==
    status = "done" =>
        /\ static.kind = "dir"
        /\ \A n \in Names :
              (static0.tree[n] # "none" /\ dist.tree[n] = "none")
                  => static.tree[n] = "none"

C6_Witness ==
    /\ status = "done"
    /\ static0.kind = "dir"
    /\ \E n \in Names : static0.tree[n] # "none" /\ dist.tree[n] = "none"
    /\ \E n \in Names : static.tree[n] # "none"

\* C7: when a second run follows a first one, both with the two commands
\* succeeding and the same build output, the destination at the end of the
\* second run is what the first run left; and if the first run completed,
\* the second completes too although the destination now exists.
C7_SecondRunSameStatic ==
    (/\ second /\ prev.end \in {"done", "raised"}
     /\ Ended /\ BothSucceeded /\ dist = prev.out) =>
        /\ static = static0
        /\ (prev.end = "done" => status = "done")

C7_Witness ==
    /\ second /\ prev.end = "done"
    /\ status = "done" /\ dist = prev.out
    /\ Started("rmtree")
    /\ static.tree # EmptyTree

\* C8: the steps of a run are started in the fixed order and each at most
\* once; the bundler only after the type check returned 0; the existence
\* test and the delete only after the bundler returned 0; the copy only
\* after the existence test, and after the delete when the destination
\* existed; and a step that failed is the last step of the run.
C8_StepsInOrder ==
    /\ \A i, j \in DOMAIN steps :
          i < j => (steps[i] \in {Order[k] : k \in DOMAIN Order}
                    /\ steps[j] \in {Order[k] : k \in DOMAIN Order}
                    /\ Pos(steps[i]) < Pos(steps[j]))
    /\ Started("vite") => (Started("tsc") /\ tscRc = 0)
    /\ Started("exists") => (Started("vite") /\ viteRc = 0)
    /\ Started("rmtree") => (Started("exists") /\ static0.kind # "absent")
    /\ Started("copytree") =>
          (Started("exists") /\ (static0.kind # "absent" => Started("rmtree")))
    /\ Started("print") => Started("copytree")
    /\ status = "failed" =>
          \/ steps = <<"tsc">> /\ tscRc # 0
          \/ steps = <<"tsc", "vite">> /\ viteRc # 0
    /\ status = "raised" => steps[Len(steps)] \in {"rmtree", "copytree"}

C8_Witness ==
    /\ status = "done"
    /\ steps = Order

\* C9: a process interrupted after the delete has completed and before the
\* copy has started leaves a destination that holds nothing: none of its
\* previous entries and none of the build output.
C9_InterruptedBetweenDeleteAndCopy ==
    (status = "killed" /\ pc = "copytree" /\ Started("rmtree")) =>
        static.tree = EmptyTree

C9_Witness ==
    /\ status = "killed" /\ pc = "copytree" /\ Started("rmtree")
    /\ static0.kind = "dir" /\ static0.tree # EmptyTree
    /\ dist.kind = "dir" /\ dist.tree # EmptyTree

\* C10: a filesystem error of the delete or of the copy ends the run at
\* that step with an uncaught exception: no later step is started, the
\* completion message is not printed, and the destination stays as the
\* failing step found it; when the copy fails because the build output is
\* not a directory, the previous destination is already gone.
C10_FsErrorEndsRun ==
    /\ (Started("copytree") /\ distAtCopy.kind # "dir") =>
          /\ status = "raised"
          /\ steps[Len(steps)] = "copytree"
          /\ ~Started("print")
          /\ static = Absent
    /\ (Started("rmtree") /\ static0.kind = "file") =>
          /\ status = "raised"
          /\ steps[Len(steps)] = "rmtree"
          /\ ~Started("copytree")
          /\ ~Started("print")
          /\ static = static0

C10_Witness ==
    /\ status = "raised"
    /\ Started("copytree") /\ distAtCopy.kind = "absent"
    /\ static0.kind = "dir" /\ static0.tree # EmptyTree
    /\ static = Absent

====
